---------------------------- MODULE Spec2Model ----------------------------
(***************************************************************************)
(* Distance-vector routing simulator (DistanceVector.py).                  *)
(*                                                                         *)
(* Router names are modelled by small positive integers; the order of     *)
(* the integers is the lexicographic order of the names (1 = "X",          *)
(* 2 = "Y", 3 = "Z").  float('inf') is the number INF, Python's None is    *)
(* the router identifier None (0) and, for a best-route record, the record *)
(* NoRoute.  A Neighbor object is a record [neighbor, cost].               *)
(***************************************************************************)
EXTENDS Integers, Sequences, FiniteSets, TLC

VARIABLES
    net,              \* Graph.net: router -> list of Neighbor (DOMAIN net = the dict's keys)
    pc,               \* position in main(): "names", "topology", "dv", "after", "updates", "done"
    run,              \* 0 before the first distance_vector call, then 1 or 2
    n_edges,          \* number of topology lines read
    n_updates,        \* len(updates): number of update lines read and applied
    routers,          \* main's `routers` (line 228), the sorted router list of the first run
    new_routers,      \* main's `new_routers` (line 252), the sorted router list of the second run
    neighbors_cost,   \* distance_vector's direct-link matrix, indexed by router position
    min_cost,         \* previous round's best-route records, indexed by router position
    min_cost_new,     \* this round's best-route records
    distance_table,   \* distance_table[i][j][via]: cost from router i to router j via `via`
    t,                \* round counter
    changed,          \* a DistanceTable entry was rewritten in the last round
    min_cost_changed, \* a best-route record differed in the last round
    warning,          \* the non-convergence warning was printed
    out               \* what the distance_vector call in progress has printed, in order

vars == <<net, pc, run, n_edges, n_updates, routers, new_routers, neighbors_cost,
          min_cost, min_cost_new, distance_table, t, changed, min_cost_changed, warning,
          out>>

dvvars == <<neighbors_cost, min_cost, min_cost_new, distance_table, t, changed,
            min_cost_changed, warning, out>>

---------------------------------------------------------------------------
(* Bounds of the model *)

MaxLines == 3            \* topology and update lines in the input

Routers == {1, 2, 3}     \* router names available to the input ("X", "Y", "Z")
Costs == {1, 2, 3}        \* link costs offered in the main specification
CapCosts == {-2, 0, 1}   \* link costs offered in the specification of the round cap

(* Program constants *)

REMOVE == -1             \* the weight that means "remove the link"
NOLINK == -1             \* neighbors_cost entry of a pair without a direct link
INF == 1000000000        \* float('inf')
None == 0                \* Python's None where a router name is expected
max_iterations == 1000

Neighbor(neighbor, cost) == [neighbor |-> neighbor, cost |-> cost]
NoRoute == Neighbor(None, INF)   \* a best-route record that is None

---------------------------------------------------------------------------
(* Graph *)

Graph_init == <<>>       \* self.net = {}

add_node(g, node) ==
    IF node \notin DOMAIN g THEN g @@ (node :> <<>>) ELSE g

add_edge_one_sided(g, source, neighbor, weight) ==
    IF weight # REMOVE
    THEN LET g2 == add_node(add_node(g, source), neighbor)
         IN  [g2 EXCEPT ![source] = Append(@, Neighbor(neighbor, weight))]
    ELSE g

add_edge_stores_any(g, source, neighbor, weight) ==
    LET g2 == add_node(add_node(g, source), neighbor)
        g3 == [g2 EXCEPT ![source] = Append(@, Neighbor(neighbor, weight))]
    IN  [g3 EXCEPT ![neighbor] = Append(@, Neighbor(source, weight))]

add_edge(g, source, neighbor, weight) ==
    IF weight # REMOVE
    THEN LET g2 == add_node(add_node(g, source), neighbor)
             g3 == [g2 EXCEPT ![source] = Append(@, Neighbor(neighbor, weight))]
         IN  [g3 EXCEPT ![neighbor] = Append(@, Neighbor(source, weight))]
    ELSE g

\* [n for n in lst if n.neighbor != who]
without(lst, who) == SelectSeq(lst, LAMBDA n : n.neighbor # who)

\* del self.net[node]
del(g, node) == [r \in (DOMAIN g) \ {node} |-> g[r]]

\* the weight == -1 branch of update_edge
remove_edge(g, source, neighbor) ==
    LET g1 == IF source \in DOMAIN g
              THEN [g EXCEPT ![source] = without(@, neighbor)] ELSE g
        g2 == IF neighbor \in DOMAIN g1
              THEN [g1 EXCEPT ![neighbor] = without(@, source)] ELSE g1
        g3 == IF source \in DOMAIN g2 /\ g2[source] = <<>>
              THEN del(g2, source) ELSE g2
    IN  IF neighbor \in DOMAIN g3 /\ g3[neighbor] = <<>>
        THEN del(g3, neighbor) ELSE g3

update_edge_known_only(g, source, neighbor, weight) ==
    IF weight = REMOVE \/ source \notin DOMAIN g \/ neighbor \notin DOMAIN g
    THEN remove_edge(g, source, neighbor)
    ELSE add_edge(remove_edge(g, source, neighbor), source, neighbor, weight)

update_edge_no_remove(g, source, neighbor, weight) ==
    IF weight = REMOVE
    THEN remove_edge(g, source, neighbor)
    ELSE add_edge(g, source, neighbor, weight)

update_edge(g, source, neighbor, weight) ==
    IF weight = REMOVE
    THEN remove_edge(g, source, neighbor)
    ELSE add_edge(remove_edge(g, source, neighbor), source, neighbor, weight)

---------------------------------------------------------------------------
(* get_router_index / sorted(net.net.keys()) *)

Min(S) == CHOOSE x \in S : \A y \in S : x <= y
Max(S) == CHOOSE x \in S : \A y \in S : x >= y

RECURSIVE sorted(_)
sorted(S) == IF S = {} THEN <<>> ELSE <<Min(S)>> \o sorted(S \ {Min(S)})

Range(s) == {s[p] : p \in 1..Len(s)}

\* router_index[router]: the position of router in the sorted list
router_index(rs, router) == CHOOSE p \in 1..Len(rs) : rs[p] = router


---------------------------------------------------------------------------
(* initialize_tables *)

\* the cost left in neighbors_cost by `for neighbor in net.net[router]`:
\* NOLINK when the list has no entry for `who`, else the cost of its last entry
link_cost_first(lst, who) ==
    LET ps == {p \in 1..Len(lst) : lst[p].neighbor = who}
    IN  IF ps = {} THEN NOLINK ELSE lst[Min(ps)].cost

link_cost(lst, who) ==
    LET ps == {p \in 1..Len(lst) : lst[p].neighbor = who}
    IN  IF ps = {} THEN NOLINK ELSE lst[Max(ps)].cost

init_neighbors_cost(g, rs) ==
    [i \in 1..Len(rs) |-> [j \in 1..Len(rs) |-> link_cost(g[rs[i]], rs[j])]]

init_min_cost(rs) ==
    [i \in 1..Len(rs) |->
        [j \in 1..Len(rs) |-> IF i = j THEN Neighbor(rs[i], 0) ELSE NoRoute]]

\* DistanceTable(): an empty table, every entry of which reads as INF (get_cost)
init_distance_table(rs) ==
    [i \in 1..Len(rs) |-> [j \in 1..Len(rs) |-> [via \in Range(rs) |-> INF]]]

---------------------------------------------------------------------------
(* get_min_cost *)

\* the body of `for via in routers`, from position p on, with the running
\* minimum (mc, mv); the result is <<min_via, min_cost>>
RECURSIVE min_loop(_, _, _, _, _, _)
min_loop(table, router, rs, p, mc, mv) ==
    IF p > Len(rs) THEN <<mv, mc>>
    ELSE LET via == rs[p]
             cost == table[via]
         IN  IF via # router
             THEN IF cost < mc
                  THEN min_loop(table, router, rs, p + 1, cost, via)
                  ELSE IF cost = mc /\ cost # INF /\ mv # None /\ via < mv
                       THEN min_loop(table, router, rs, p + 1, mc, via)
                       ELSE min_loop(table, router, rs, p + 1, mc, mv)
             ELSE min_loop(table, router, rs, p + 1, mc, mv)

RECURSIVE min_loop_last(_, _, _, _, _, _)
min_loop_last(table, router, rs, p, mc, mv) ==
    IF p > Len(rs) THEN <<mv, mc>>
    ELSE IF rs[p] # router /\ table[rs[p]] # INF /\ table[rs[p]] <= mc
         THEN min_loop_last(table, router, rs, p + 1, table[rs[p]], rs[p])
         ELSE min_loop_last(table, router, rs, p + 1, mc, mv)

get_min_cost_last(table, router, rs) ==
    LET r == min_loop_last(table, router, rs, 1, INF, None)
    IN  IF r[1] # None THEN Neighbor(r[1], r[2]) ELSE NoRoute

get_min_cost_first_finite(table, router, rs) ==
    LET finite == {p \in 1..Len(rs) : rs[p] # router /\ table[rs[p]] # INF}
    IN  IF finite # {} THEN Neighbor(rs[Min(finite)], table[rs[Min(finite)]])
        ELSE NoRoute

get_min_cost(table, router, rs) ==
    LET r == min_loop(table, router, rs, 1, INF, None)
    IN  IF r[1] # None THEN Neighbor(r[1], r[2]) ELSE NoRoute

---------------------------------------------------------------------------
(* one round of distance_vector's while loop *)

candidate_no_link_cost(nc, mc, i, j, k) ==
    IF nc[i][k] # NOLINK
    THEN IF mc[k][j] # NoRoute /\ mc[k][j].cost # INF THEN mc[k][j].cost ELSE INF
    ELSE INF

candidate_ignores_nolink(nc, mc, i, j, k) ==
    LET m == IF mc[k][j] # NoRoute /\ mc[k][j].cost # INF THEN mc[k][j].cost ELSE INF
    IN  IF m # INF THEN nc[i][k] + m ELSE INF

candidate_inf_not_absorbing(nc, mc, i, j, k) ==
    IF nc[i][k] # NOLINK
    THEN LET m == IF mc[k][j] # NoRoute THEN mc[k][j].cost ELSE INF
         IN  nc[i][k] + m
    ELSE INF

\* lines 159-164: the candidate cost of (router i, destination j, via k)
candidate(nc, mc, i, j, k) ==
    IF nc[i][k] # NOLINK
    THEN LET m == IF mc[k][j] # NoRoute /\ mc[k][j].cost # INF
                  THEN mc[k][j].cost ELSE INF
         IN  IF m # INF THEN nc[i][k] + m ELSE INF
    ELSE INF

\* lines 154-169: the DistanceTables after the round
relax(nc, mc, dt, rs) ==
    [i \in 1..Len(rs) |-> [j \in 1..Len(rs) |-> [via \in Range(rs) |->
        IF i # j /\ rs[i] # via
        THEN candidate(nc, mc, i, j, router_index(rs, via))
        ELSE dt[i][j][via]]]]

select_no_diagonal(dt, rs) ==
    [i \in 1..Len(rs) |-> [j \in 1..Len(rs) |-> get_min_cost(dt[i][j], rs[i], rs)]]

\* lines 148-152 and 172-173: the best-route records of the round
select(dt, rs) ==
    [i \in 1..Len(rs) |-> [j \in 1..Len(rs) |->
        IF i = j THEN Neighbor(rs[i], 0)
        ELSE get_min_cost(dt[i][j], rs[i], rs)]]

differs_by_identity(old_min, new_min) ==
    old_min # NoRoute \/ new_min # NoRoute

differs_cost_only(old_min, new_min) ==
    \/ old_min = NoRoute /\ new_min # NoRoute
    \/ old_min # NoRoute /\ new_min = NoRoute
    \/ old_min # NoRoute /\ new_min # NoRoute /\ old_min.cost # new_min.cost

\* lines 177-180: the comparison of one old and one new best-route record
differs(old_min, new_min) ==
    \/ old_min = NoRoute /\ new_min # NoRoute
    \/ old_min # NoRoute /\ new_min = NoRoute
    \/ /\ old_min # NoRoute /\ new_min # NoRoute
       /\ (old_min.cost # new_min.cost \/ old_min.neighbor # new_min.neighbor)

any_differs_skip_last(old, new, rs) ==
    \E i, j \in 1..(Len(rs) - 1) : i # j /\ differs(old[i][j], new[i][j])

\* lines 154-156 and 176-181: some best-route record differs
any_differs(old, new, rs) ==
    \E i, j \in 1..Len(rs) : i # j /\ differs(old[i][j], new[i][j])

\* lines 166-169: some entry was rewritten
any_rewritten(old_dt, new_dt, rs) ==
    \E i, j \in 1..Len(rs) : \E via \in Range(rs) : old_dt[i][j][via] # new_dt[i][j][via]

cap_reached_off_by_one(rounds) == rounds > max_iterations

\* line 192: the test that prints the warning
cap_reached(rounds) == rounds >= max_iterations

\* what print_distance_table and print_routing_table add to the output: the
\* kind of table and, for a DistanceTable snapshot, the t of its headers
Snapshot(round) == [kind |-> "distance", round |-> round]
RoutingTable == [kind |-> "routing", round |-> None]

print_distance_table_from_one(o, round) == Append(o, Snapshot(round + 1))

\* lines 95-112, called at line 183
print_distance_table(o, round) == Append(o, Snapshot(round))

\* lines 114-133, called at line 195
print_routing_table(o) == Append(o, RoutingTable)

\* lines 122-130: print_routing_table prints "dest,INF,INF" for a record with
\* a finite cost, because its via is not a direct neighbor
takes_fallback(mc, nc, rs, i, j) ==
    /\ mc[i][j] # NoRoute /\ mc[i][j].cost # INF
    /\ ~(nc[i][router_index(rs, mc[i][j].neighbor)] # NOLINK)

\* the `routers` argument of the distance_vector call in progress
R == IF run = 2 THEN new_routers ELSE routers

---------------------------------------------------------------------------
(* main and distance_vector as a state machine *)

Init ==
    /\ net = Graph_init
    /\ pc = "names"
    /\ run = 0
    /\ n_edges = 0
    /\ n_updates = 0
    /\ routers = <<>>
    /\ new_routers = <<>>
    /\ neighbors_cost = <<>>
    /\ min_cost = <<>>
    /\ min_cost_new = <<>>
    /\ distance_table = <<>>
    /\ t = 0
    /\ changed = FALSE
    /\ min_cost_changed = FALSE
    /\ warning = FALSE
    /\ out = <<>>

EnterDV_keep_state(rs) ==
    /\ neighbors_cost' = init_neighbors_cost(net', rs)
    /\ min_cost' = IF Len(min_cost) = Len(rs) THEN min_cost ELSE init_min_cost(rs)
    /\ min_cost_new' = <<>>
    /\ distance_table' = IF Len(distance_table) = Len(rs) /\ rs = routers
                          THEN distance_table ELSE init_distance_table(rs)
    /\ t' = 0
    /\ changed' = FALSE
    /\ min_cost_changed' = FALSE
    /\ warning' = FALSE
    /\ out' = <<>>

\* lines 137-140: the start of a distance_vector call on the router list rs
EnterDV(rs) ==
    /\ neighbors_cost' = init_neighbors_cost(net', rs)
    /\ min_cost' = init_min_cost(rs)
    /\ min_cost_new' = <<>>
    /\ distance_table' = init_distance_table(rs)
    /\ t' = 0
    /\ changed' = FALSE
    /\ min_cost_changed' = FALSE
    /\ warning' = FALSE
    /\ out' = <<>>

\* lines 201-210: a router name line
AddNode(node) ==
    /\ pc = "names"
    /\ net' = add_node(net, node)
    /\ UNCHANGED <<pc, run, n_edges, n_updates, routers, new_routers, dvvars>>

\* lines 205-206: the START line
Start ==
    /\ pc = "names"
    /\ pc' = "topology"
    /\ UNCHANGED <<net, run, n_edges, n_updates, routers, new_routers, dvvars>>

\* lines 213-222: a topology line
AddEdge(source, neighbor, weight) ==
    /\ pc = "topology"
    /\ n_edges < MaxLines
    /\ net' = add_edge(net, source, neighbor, weight)
    /\ n_edges' = n_edges + 1
    /\ UNCHANGED <<pc, run, n_updates, routers, new_routers, dvvars>>

\* lines 203-204 and 215-216: the input ends before UPDATE
Eof ==
    /\ pc \in {"names", "topology"}
    /\ pc' = "done"
    /\ UNCHANGED <<net, run, n_edges, n_updates, routers, new_routers, dvvars>>

\* lines 217-218 and 227-232: the UPDATE line and the first distance_vector call
Update ==
    /\ pc = "topology"
    /\ routers' = sorted(DOMAIN net)
    /\ UNCHANGED <<net, n_edges, n_updates, new_routers>>
    /\ IF routers' # <<>>
       THEN /\ pc' = "dv"
            /\ run' = 1
            /\ EnterDV(routers')
       ELSE /\ pc' = "done"
            /\ UNCHANGED <<run, dvvars>>

\* lines 143-190: one pass of the while loop
Round ==
    /\ pc = "dv"
    /\ t < max_iterations
    /\ distance_table' = relax(neighbors_cost, min_cost, distance_table, R)
    /\ changed' = any_rewritten(distance_table, distance_table', R)
    /\ min_cost_new' = select(distance_table', R)
    /\ min_cost_changed' = any_differs(min_cost, min_cost_new', R)
    /\ out' = print_distance_table(out, t)
    /\ IF ~min_cost_changed'
       THEN /\ pc' = "after"
            /\ UNCHANGED <<min_cost, t>>
       ELSE /\ min_cost' = min_cost_new'
            /\ t' = t + 1
            /\ pc' = "dv"
    /\ UNCHANGED <<net, run, n_edges, n_updates, routers, new_routers,
                   neighbors_cost, warning>>

\* lines 192-196: after the loop (left by break or by its condition)
Return ==
    /\ \/ pc = "after"
       \/ pc = "dv" /\ ~(t < max_iterations)
    /\ warning' = cap_reached(t)
    /\ out' = print_routing_table(out)
    /\ pc' = IF run = 1 THEN "updates" ELSE "done"
    /\ UNCHANGED <<net, run, n_edges, n_updates, routers, new_routers, neighbors_cost,
                   min_cost, min_cost_new, distance_table, t, changed, min_cost_changed>>

\* lines 236-243 and 249-250: an update line; the edits are applied in the order read
UpdateEdge(source, neighbor, weight) ==
    /\ pc = "updates"
    /\ n_edges + n_updates < MaxLines
    /\ net' = update_edge(net, source, neighbor, weight)
    /\ n_updates' = n_updates + 1
    /\ UNCHANGED <<pc, run, n_edges, routers, new_routers, dvvars>>

\* lines 238-239 and 248-254: the END line and the second distance_vector call
End ==
    /\ pc = "updates"
    /\ UNCHANGED <<net, n_edges, n_updates, routers>>
    /\ IF n_updates > 0 /\ DOMAIN net # {}
       THEN /\ new_routers' = sorted(DOMAIN net)
            /\ pc' = "dv"
            /\ run' = 2
            /\ EnterDV(new_routers')
       ELSE /\ new_routers' = IF n_updates > 0 THEN sorted(DOMAIN net) ELSE new_routers
            /\ pc' = "done"
            /\ UNCHANGED <<run, dvvars>>

Weights == Costs \cup {REMOVE}

\* The input lines of Next name two different routers; lines that name one
\* router twice are covered by SpecGraph below.

Next ==
    \/ \E node \in Routers : AddNode(node)
    \/ Start
    \/ \E source, neighbor \in Routers : \E weight \in Weights :
          source # neighbor /\ AddEdge(source, neighbor, weight)
    \/ Eof
    \/ Update
    \/ Round
    \/ Return
    \/ \E source, neighbor \in Routers : \E weight \in Weights :
          source # neighbor /\ UpdateEdge(source, neighbor, weight)
    \/ End

Spec == Init /\ [][Next]_vars

---------------------------------------------------------------------------
(* The round cap: runs over topologies with arbitrary integer costs.  The *)
(* input has declared every router and given at most one line per pair of *)
(* routers; the state machine starts at the UPDATE line.                  *)

Pairs == {<<a, b>> \in Routers \X Routers : a < b}

RECURSIVE add_nodes(_, _)
add_nodes(g, S) ==
    IF S = {} THEN g ELSE add_nodes(add_node(g, Min(S)), S \ {Min(S)})

\* the topology lines "a b w[<<a, b>>]", read in the order of the pairs
RECURSIVE add_edges(_, _, _)
add_edges(g, S, w) ==
    IF S = {} THEN g
    ELSE LET e == CHOOSE x \in S : \A y \in S :
                      x[1] < y[1] \/ (x[1] = y[1] /\ x[2] <= y[2])
         IN  add_edges(add_edge(g, e[1], e[2], w[e]), S \ {e}, w)

InitCap ==
    /\ \E w \in [Pairs -> CapCosts \cup {REMOVE}] :
          net = add_edges(add_nodes(Graph_init, Routers), Pairs, w)
    /\ pc = "topology"
    /\ run = 0
    /\ n_edges = Cardinality(Pairs)
    /\ n_updates = 0
    /\ routers = <<>>
    /\ new_routers = <<>>
    /\ neighbors_cost = <<>>
    /\ min_cost = <<>>
    /\ min_cost_new = <<>>
    /\ distance_table = <<>>
    /\ t = 0
    /\ changed = FALSE
    /\ min_cost_changed = FALSE
    /\ warning = FALSE
    /\ out = <<>>

NextCap ==
    \/ Update
    \/ Round
    \/ Return
    \/ End

SpecCap == InitCap /\ [][NextCap]_vars

\* main is one sequential program: whenever it has a next step, it takes it
FairSpecCap == InitCap /\ [][NextCap]_vars /\ WF_vars(NextCap)

---------------------------------------------------------------------------
(* The Graph object alone, under any sequence of its three operations,    *)
(* lines that name one router twice included.  n_edges counts the calls   *)
(* of add_edge and update_edge.                                           *)

InitGraph ==
    /\ net = Graph_init
    /\ pc = "graph"
    /\ run = 0
    /\ n_edges = 0
    /\ n_updates = 0
    /\ routers = <<>>
    /\ new_routers = <<>>
    /\ neighbors_cost = <<>>
    /\ min_cost = <<>>
    /\ min_cost_new = <<>>
    /\ distance_table = <<>>
    /\ t = 0
    /\ changed = FALSE
    /\ min_cost_changed = FALSE
    /\ warning = FALSE
    /\ out = <<>>

CallAddNode(node) ==
    /\ pc = "graph"
    /\ net' = add_node(net, node)
    /\ UNCHANGED <<pc, run, n_edges, n_updates, routers, new_routers, dvvars>>

CallAddEdge(source, neighbor, weight) ==
    /\ pc = "graph"
    /\ n_edges < MaxLines
    /\ net' = add_edge(net, source, neighbor, weight)
    /\ n_edges' = n_edges + 1
    /\ UNCHANGED <<pc, run, n_updates, routers, new_routers, dvvars>>

CallUpdateEdge(source, neighbor, weight) ==
    /\ pc = "graph"
    /\ n_edges < MaxLines
    /\ net' = update_edge(net, source, neighbor, weight)
    /\ n_edges' = n_edges + 1
    /\ UNCHANGED <<pc, run, n_updates, routers, new_routers, dvvars>>

NextGraph ==
    \/ \E node \in Routers : CallAddNode(node)
    \/ \E source, neighbor \in Routers : \E weight \in Weights :
          CallAddEdge(source, neighbor, weight)
    \/ \E source, neighbor \in Routers : \E weight \in Weights :
          CallUpdateEdge(source, neighbor, weight)

SpecGraph == InitGraph /\ [][NextGraph]_vars

---------------------------------------------------------------------------
(* Properties of the topology *)

\* router a lists neighbor b with cost c
lists(g, a, b, c) ==
    a \in DOMAIN g /\ \E p \in 1..Len(g[a]) : g[a][p] = Neighbor(b, c)

\* some link between a and b is stored, at either end
linked(g, a, b) ==
    \/ a \in DOMAIN g /\ \E p \in 1..Len(g[a]) : g[a][p].neighbor = b
    \/ b \in DOMAIN g /\ \E p \in 1..Len(g[b]) : g[b][p].neighbor = a

\* router a has no entry in its neighbor list, or is not in the topology
isolated(g, a) == a \notin DOMAIN g \/ g[a] = <<>>

\* C3: when the edits have removed the only links of a router that the first
\* run covered, the router list of the re-convergence run still holds that
\* router (so that the run reports its routes, and the routes to it, as
\* unreachable).  Stated on the step that reads END and starts the second run.
C3_RerunCoversIsolatedRouter ==
    [][(pc = "updates" /\ pc' # "updates" /\ n_updates > 0) =>
          \A i \in 1..Len(routers) :
              ( /\ \E k \in 1..Len(routers) : k # i /\ neighbors_cost[i][k] # NOLINK
                /\ isolated(net, routers[i]) )
              => routers[i] \in Range(new_routers')]_vars

\* C4: an edit that removes a link between two routers that share no link
\* leaves the topology as it was: the same routers, the same neighbor lists.
C4_RemoveAbsentLinkIsNoop ==
    [][(pc = "updates" /\ n_updates' = n_updates + 1) =>
          \A a, b \in Routers :
              (~linked(net, a, b) /\ net' = update_edge(net, a, b, REMOVE))
              => net' = net]_vars

\* C5: the topology is mirrored after any sequence of add_node, add_edge and
\* update_edge: every entry (b, c) in a's list has an entry (a, c) in b's list;
\* and add_edge(a, b, c) with a cost c leaves b in a's list and a in b's list,
\* both with cost c.
C5_Mirrored ==
    /\ \A a \in DOMAIN net : \A p \in 1..Len(net[a]) :
          lists(net, net[a][p].neighbor, a, net[a][p].cost)
    /\ \A a, b \in Routers : \A c \in Costs :
          LET g == add_edge(net, a, b, c)
          IN  lists(g, a, b, c) /\ lists(g, b, a, c)

\* C5 witness: after three calls two different routers list each other with
\* the same cost
C5_Witness ==
    /\ pc = "graph"
    /\ n_edges = MaxLines
    /\ \E a, b \in Routers : \E c \in Costs :
          a # b /\ lists(net, a, b, c) /\ lists(net, b, a, c)

---------------------------------------------------------------------------
(* Properties of a converged run *)

\* distance_vector has left its loop by `break`: a round detected convergence
Converged == pc = "after"

\* a round of the current distance_vector call has been computed
RoundDone == min_cost_new # <<>>

Idx == 1..Len(R)

\* the best cost from router k to router j in the records mc
Best(mc, k, j) == IF k = j THEN 0 ELSE mc[k][j].cost

\* direct-link-cost(i, k) + best-cost(k, j); INF for a missing link or an
\* unreachable via
ViaCost(mc, i, k, j) ==
    IF neighbors_cost[i][k] = NOLINK \/ Best(mc, k, j) = INF
    THEN INF
    ELSE neighbors_cost[i][k] + Best(mc, k, j)

\* C1: when distance_vector stops as converged, every finite best cost is the
\* minimum over the vias k # i of direct-link-cost(i, k) + best-cost(k, j).
C1_Bellman ==
    Converged =>
        \A i, j \in Idx :
            (i # j /\ min_cost[i][j].cost # INF) =>
                min_cost[i][j].cost = Min({ViaCost(min_cost, i, k, j) : k \in Idx \ {i}})

\* C1 witness: a converged run in which a route through a third router is
\* strictly cheaper than the direct link
C1_Witness ==
    /\ Converged
    /\ \E i, j \in Idx :
          /\ i # j
          /\ neighbors_cost[i][j] # NOLINK
          /\ min_cost[i][j].cost < neighbors_cost[i][j]

---------------------------------------------------------------------------
(* Shortest paths in the topology, computed from the neighbor lists *)

\* the cost of the link a-b in topology g: the cost given by the latest line
\* for the pair; INF when the pair has no link
EdgeCost(g, a, b) ==
    LET ps == {p \in 1..Len(g[a]) : g[a][p].neighbor = b}
    IN  IF ps = {} THEN INF
        ELSE g[a][CHOOSE p \in ps : \A q \in ps : q <= p].cost

\* the cost of the cheapest path from a to b that avoids the routers in seen
RECURSIVE PathCost(_, _, _, _)
PathCost(g, a, b, seen) ==
    IF a = b THEN 0
    ELSE LET next == {v \in DOMAIN g \ (seen \cup {a}) :
                        /\ EdgeCost(g, a, v) # INF
                        /\ PathCost(g, v, b, seen \cup {a}) # INF}
         IN  IF next = {} THEN INF
             ELSE Min({EdgeCost(g, a, v) + PathCost(g, v, b, seen \cup {a}) : v \in next})

\* the first hops of the shortest paths from a to b
FirstHops(g, a, b) ==
    {v \in DOMAIN g \ {a} :
        /\ EdgeCost(g, a, v) # INF
        /\ PathCost(g, v, b, {a}) # INF
        /\ EdgeCost(g, a, v) + PathCost(g, v, b, {a}) = PathCost(g, a, b, {})}

\* C2: with positive link costs, the converged best route of every ordered
\* pair has the cost of a shortest path of the topology and a via that is the
\* first hop of a shortest path; the pair has no route exactly when no path
\* connects it.
C2_ShortestPaths ==
    Converged =>
        \A i, j \in Idx :
            i # j =>
                IF PathCost(net, R[i], R[j], {}) = INF
                THEN min_cost[i][j] = NoRoute
                ELSE /\ min_cost[i][j].cost = PathCost(net, R[i], R[j], {})
                     /\ min_cost[i][j].neighbor \in FirstHops(net, R[i], R[j])

\* C2 witness: the re-convergence run after an edit has converged with a route
\* through a third router
C2_Witness ==
    /\ Converged
    /\ run = 2
    /\ \E i, j \in Idx :
          i # j /\ min_cost[i][j] # NoRoute /\ min_cost[i][j].neighbor # R[j]

---------------------------------------------------------------------------
(* Properties of the rounds *)

\* the best-route records of the last round equal those of the round before,
\* in via and in cost
SameRecords ==
    \A i, j \in Idx :
        /\ min_cost_new[i][j].neighbor = min_cost[i][j].neighbor
        /\ min_cost_new[i][j].cost = min_cost[i][j].cost

\* C6 as stated: the engine stops as converged only in a round in which no
\* best-route record differs from the previous round's and no DistanceTable
\* entry was changed.
C6_StopsOnlyWhenNothingChanged ==
    Converged => (SameRecords /\ ~changed)

\* C6 amended: the engine stops as converged only in a round in which no
\* best-route record differs from the previous round's record, in via or in
\* cost (DistanceTable entries may have been rewritten in that round).
C6_StopsOnlyWhenRecordsUnchanged ==
    Converged => SameRecords

\* C6 witness: a converged stop in a round that rewrote DistanceTable entries
C6_Witness ==
    Converged /\ changed /\ t > 0

\* C7: one more round run from the state in which distance_vector stopped as
\* converged, with the last round's records as its baseline, rewrites no
\* DistanceTable entry and yields the same best-route records.
C7_FixedPointIdempotent ==
    Converged =>
        LET dt2 == relax(neighbors_cost, min_cost_new, distance_table, R)
            new2 == select(dt2, R)
        IN  /\ dt2 = distance_table
            /\ new2 = min_cost_new
            /\ new2 = min_cost

\* C7 witness: a run over three routers that converged after at least two
\* rounds of changes
C7_Witness ==
    Converged /\ t >= 2 /\ Len(R) = 3

\* C9: in every round of every run, from the initial state to the terminal
\* round, the best-route record of each router for itself is (itself, 0), and
\* the DistanceTable of a router for itself is never written.
C9_DiagonalFixed ==
    run >= 1 =>
        \A i \in Idx :
            /\ min_cost[i][i] = Neighbor(R[i], 0)
            /\ RoundDone => min_cost_new[i][i] = Neighbor(R[i], 0)
            /\ \A via \in Range(R) : distance_table[i][i][via] = INF

\* C9 witness: the second run, between two rounds, after rounds that changed
\* best routes
C9_Witness ==
    run = 2 /\ pc = "dv" /\ t >= 2

\* the vias of router i whose stored cost to router j is the minimum finite
\* cost of the row; empty when every cost is INF
MinVias(i, j) ==
    LET vias == Range(R) \ {R[i]}
        finite == {v \in vias : distance_table[i][j][v] # INF}
    IN  {v \in finite : \A u \in finite :
            distance_table[i][j][v] <= distance_table[i][j][u]}

\* C10: the record get_min_cost selects from a DistanceTable row is the
\* smallest via identifier among the vias # router that hold the minimum finite
\* cost, with that cost; no record when every cost of the row is INF.
C10_TieBreak ==
    RoundDone =>
        \A i, j \in Idx :
            i # j =>
                IF MinVias(i, j) = {}
                THEN min_cost_new[i][j] = NoRoute
                ELSE /\ min_cost_new[i][j].neighbor = Min(MinVias(i, j))
                     /\ min_cost_new[i][j].cost =
                            distance_table[i][j][Min(MinVias(i, j))]

\* C10 witness: a row in which two vias hold the minimum finite cost
C10_Witness ==
    /\ RoundDone
    /\ \E i, j \in Idx : i # j /\ Cardinality(MinVias(i, j)) >= 2

---------------------------------------------------------------------------
(* The round cap *)

\* distance_vector has returned
Returned == run >= 1 /\ pc \in {"updates", "done"}

\* C8: with any link costs, distance_vector runs at most max_iterations rounds
\* and returns; it prints the warning exactly when the last of max_iterations
\* rounds still changed a best route, and it returns the tables of the last
\* round computed.
C8_CapTerminates ==
    /\ [](/\ t <= max_iterations
          /\ Returned =>
                /\ warning <=> min_cost_changed
                /\ warning <=> (t = max_iterations)
                /\ SameRecords)
    /\ <>Returned

\* C8 witness: a run that exhausted the cap has returned with the warning
C8_Witness ==
    Returned /\ warning /\ t = max_iterations /\ min_cost_changed

---------------------------------------------------------------------------
(* Properties of add_edge and update_edge *)

\* the positions of router a's neighbor list that name neighbor b
entries(g, a, b) ==
    IF a \in DOMAIN g THEN {p \in 1..Len(g[a]) : g[a][p].neighbor = b} ELSE {}

\* C11: every router's neighbor list holds at most one entry per neighbor
\* (a topology line for a pair that is already linked replaces the stored
\* cost; it does not add a second entry).
C11_OneEntryPerNeighbor ==
    \A a \in DOMAIN net : \A b \in Routers : Cardinality(entries(net, a, b)) <= 1

\* router a's neighbor list without its entries for b; empty when a is not in
\* the topology
others(g, a, b) == IF a \in DOMAIN g THEN without(g[a], b) ELSE <<>>

\* C12: an edit "a b c" with a # b and a cost c leaves exactly one entry for b
\* in a's list and one for a in b's list, both with cost c, whatever entries
\* the pair had before; the entries of a and of b for every other neighbor,
\* the neighbor list of every other router and the set of the other routers
\* are as before.  Stated on the step that applies the edit.
C12_EditReplacesLink ==
    [][(pc = "updates" /\ n_updates' = n_updates + 1) =>
          \A a, b \in Routers : \A c \in Costs :
              (a # b /\ net' = update_edge(net, a, b, c)) =>
                  /\ Cardinality(entries(net', a, b)) = 1
                  /\ Cardinality(entries(net', b, a)) = 1
                  /\ lists(net', a, b, c)
                  /\ lists(net', b, a, c)
                  /\ others(net', a, b) = others(net, a, b)
                  /\ others(net', b, a) = others(net, b, a)
                  /\ \A r \in Routers \ {a, b} :
                        /\ r \in DOMAIN net' <=> r \in DOMAIN net
                        /\ r \in DOMAIN net => net'[r] = net[r]]_vars

\* C12 witness: an edit has given a pair that the first run saw linked a
\* different cost, and a third router has links of its own
C12_Witness ==
    /\ pc = "updates"
    /\ n_updates = 1
    /\ \E i, j \in 1..Len(routers) :
          /\ i # j
          /\ neighbors_cost[i][j] # NOLINK
          /\ Cardinality(entries(net, routers[i], routers[j])) = 1
          /\ ~lists(net, routers[i], routers[j], neighbors_cost[i][j])
          /\ \E k \in 1..Len(routers) :
                k \notin {i, j} /\ ~isolated(net, routers[k])

---------------------------------------------------------------------------
(* The state in which the re-convergence run starts *)

\* the routers that both runs cover
InBoth(old, new) == Range(old) \cap Range(new)

\* C13 as stated: the second run starts from the state the first run returned:
\* for routers r # d that both runs cover, the initial best-route record of
\* (r, d) is the first run's record and the initial DistanceTable entries of
\* (r, d) for the vias that both runs cover are the first run's entries; every
\* self-entry is (self, 0); the records of a router new to the second run are
\* unreachable.  Stated on the step that reads END and starts the second run.
C13_StartsFromPriorState ==
    [][(pc = "updates" /\ run = 1 /\ run' = 2) =>
          LET new == new_routers'
              both == InBoth(routers, new)
          IN  /\ \A r, d \in both :
                    LET i == router_index(new, r)
                        j == router_index(new, d)
                        oi == router_index(routers, r)
                        oj == router_index(routers, d)
                    IN  IF r = d
                        THEN min_cost'[i][j] = Neighbor(r, 0)
                        ELSE /\ min_cost'[i][j] = min_cost[oi][oj]
                             /\ \A via \in both :
                                   distance_table'[i][j][via] = distance_table[oi][oj][via]
              /\ \A r \in Range(new) \ Range(routers) : \A d \in Range(new) \ {r} :
                    min_cost'[router_index(new, r)][router_index(new, d)] = NoRoute]_vars

\* C13 amended: the second run is a cold start: whatever the first run
\* returned, its initial state has round counter 0, every self-entry
\* (self, 0), no best-route record for any other pair, and every DistanceTable
\* entry infinite.  Stated on the step that reads END and starts the second run.
C13_RerunIsColdStart ==
    [][(pc = "updates" /\ run = 1 /\ run' = 2) =>
          LET new == new_routers'
          IN  /\ t' = 0
              /\ \A i, j \in 1..Len(new) :
                    /\ min_cost'[i][j] = IF i = j THEN Neighbor(new[i], 0) ELSE NoRoute
                    /\ \A via \in Range(new) : distance_table'[i][j][via] = INF]_vars

\* C13 witness: the second run is at its start, before its first round, and
\* covers two routers that the first run covered and that share a link
C13_Witness ==
    /\ run = 2
    /\ pc = "dv"
    /\ ~RoundDone
    /\ \E r, d \in InBoth(routers, new_routers) : r # d /\ linked(net, r, d)

---------------------------------------------------------------------------
(* The remove sentinel *)

\* C14: after any sequence of add_node, add_edge and update_edge calls, calls
\* with the weight -1 included, no entry of any neighbor list has the cost -1.
C14_SentinelNeverStored ==
    \A a \in DOMAIN net : \A p \in 1..Len(net[a]) : net[a][p].cost # REMOVE

\* C14 witness: the one add_edge or update_edge call made so far had the
\* weight -1 and stored nothing: every router is in the topology with an empty
\* neighbor list
C14_Witness ==
    /\ pc = "graph"
    /\ n_edges = 1
    /\ DOMAIN net = Routers
    /\ \A a \in DOMAIN net : net[a] = <<>>

---------------------------------------------------------------------------
(* Edits that name a router the topology does not hold *)

\* C15 as stated: an edit "a b w" that names a router not in the topology
\* leaves both a and b in the topology, whatever w is.  Stated on the step
\* that applies the edit.
C15_EditCreatesRouter ==
    [][(pc = "updates" /\ n_updates' = n_updates + 1) =>
          \A a, b \in Routers : \A w \in Weights :
              ( /\ a # b
                /\ a \notin DOMAIN net \/ b \notin DOMAIN net
                /\ net' = update_edge(net, a, b, w) )
              => {a, b} \subseteq DOMAIN net']_vars

\* C15 amended: an edit "a b w" that names a router not in the topology and
\* has a cost w leaves the topology with the routers add_edge(a, b, w) leaves:
\* those it had, and a and b; with the weight -1 it adds no router.
C15_EditWithCostCreatesRouter ==
    [][(pc = "updates" /\ n_updates' = n_updates + 1) =>
          \A a, b \in Routers : \A w \in Weights :
              ( /\ a # b
                /\ a \notin DOMAIN net \/ b \notin DOMAIN net
                /\ net' = update_edge(net, a, b, w) )
              => IF w # REMOVE
                 THEN /\ DOMAIN net' = DOMAIN net \cup {a, b}
                      /\ DOMAIN net' = DOMAIN add_edge(net, a, b, w)
                 ELSE DOMAIN net' \subseteq DOMAIN net]_vars

\* C15 witness: after an edit the topology holds a router that the first run
\* did not cover, linked to a router that it covered
C15_Witness ==
    /\ pc = "updates"
    /\ n_updates = 1
    /\ \E r \in DOMAIN net \ Range(routers) : \E q \in Range(routers) : linked(net, r, q)

---------------------------------------------------------------------------
(* The output of a distance_vector call *)

\* the number of rounds the distance_vector call has computed: t counts the
\* rounds that changed a best route, and a call that left its loop by `break`
\* has computed one more
NumRounds ==
    IF pc = "dv" THEN t
    ELSE IF pc = "after" THEN t + 1
    ELSE IF warning THEN t ELSE t + 1

\* C16: the output of a distance_vector call is, in this order, one
\* DistanceTable snapshot for each round computed so far, the terminal round
\* (converged or the last round under the cap) included, with the indices
\* 0, 1, 2, ... and, once the call has returned, the routing table as its last
\* item.
C16_OneSnapshotPerRound ==
    run >= 1 =>
        /\ Len(out) = NumRounds + (IF Returned THEN 1 ELSE 0)
        /\ \A p \in 1..NumRounds : out[p] = Snapshot(p - 1)
        /\ Returned => out[NumRounds + 1] = RoutingTable

\* C16 witness: a call that used up the round cap has returned, with
\* max_iterations snapshots and then the routing table
C16_Witness ==
    /\ Returned
    /\ warning
    /\ Len(out) = max_iterations + 1
    /\ out[max_iterations] = Snapshot(max_iterations - 1)

---------------------------------------------------------------------------
(* The DistanceTable entries a round writes *)

\* a step that computes one round of the distance_vector call in progress
RoundStep == pc = "dv" /\ pc' \in {"dv", "after"}

\* C17: the round computed from the best-route records mc of the round before
\* leaves, for every router i, destination j # i and via k # i, the entry
\* INF when i has no direct link to k or the best cost of mc from k to j is
\* infinite, and direct-link-cost(i, k) + that best cost otherwise; after
\* round 0 an entry is finite exactly when the via is the destination and a
\* direct neighbor, and is then the cost of the link.
C17_EntryIsLinkPlusBest ==
    [][RoundStep =>
          \A i, j, k \in Idx :
              (i # j /\ k # i) =>
                  /\ distance_table'[i][j][R[k]] = ViaCost(min_cost, i, k, j)
                  /\ t = 0 =>
                        /\ distance_table'[i][j][R[k]] # INF
                              <=> (k = j /\ neighbors_cost[i][k] # NOLINK)
                        /\ distance_table'[i][j][R[k]] # INF
                              => distance_table'[i][j][R[k]] = neighbors_cost[i][k]]_vars

\* C17 witness: after a later round an entry is finite for a via that is not
\* the destination, and another entry of the same router is infinite although
\* the router has a link to its via
C17_Witness ==
    /\ RoundDone
    /\ t >= 1
    /\ \E i, j, k \in Idx :
          /\ i # j /\ k # i /\ k # j
          /\ distance_table[i][j][R[k]] # INF
    /\ \E i, j, k \in Idx :
          /\ i # j /\ k # i
          /\ neighbors_cost[i][k] # NOLINK
          /\ distance_table[i][j][R[k]] = INF

---------------------------------------------------------------------------
(* The vias of the best routes *)

\* the topology is the one the distance_vector call in progress, or the last
\* one, was given
TopologyOfRun == run = 2 \/ n_updates = 0

\* the via of record rec of router i is a direct neighbor of i: the link
\* matrix of the call has a cost for it and, in the topology of the call,
\* i's neighbor list has an entry for it
ViaIsNeighbor(rec, i) ==
    /\ rec.neighbor \in Range(R)
    /\ neighbors_cost[i][router_index(R, rec.neighbor)] # NOLINK
    /\ TopologyOfRun => entries(net, R[i], rec.neighbor) # {}

\* C18: in every round of every run, every best-route record with a finite
\* cost of a router for another router has a via that is a direct neighbor of
\* the router; the routing table never prints INF for a record with a finite
\* cost.
C18_FiniteViaIsNeighbor ==
    run >= 1 =>
        \A i, j \in Idx :
            i # j =>
                /\ min_cost[i][j].cost # INF => ViaIsNeighbor(min_cost[i][j], i)
                /\ ~takes_fallback(min_cost, neighbors_cost, R, i, j)
                /\ RoundDone =>
                      /\ min_cost_new[i][j].cost # INF
                            => ViaIsNeighbor(min_cost_new[i][j], i)
                      /\ ~takes_fallback(min_cost_new, neighbors_cost, R, i, j)

\* C18 witness: a call has returned, and so printed its routing table, with a
\* best route whose via is not the destination while two other routers share
\* no link
C18_Witness ==
    /\ Returned
    /\ TopologyOfRun
    /\ \E i, j \in Idx :
          i # j /\ min_cost[i][j].cost # INF /\ min_cost[i][j].neighbor # R[j]
    /\ \E i, j \in Idx : i # j /\ neighbors_cost[i][j] = NOLINK

---------------------------------------------------------------------------
(* The number of rounds of a run over positive link costs *)

\* C19: in a run over N routers whose links all have a positive cost, the
\* index of a round never exceeds N, the round that detects convergence
\* included; the warning is never printed and a call that has returned left
\* its loop in a round that changed no best route.
C19_ConvergesWithinN ==
    run >= 1 =>
        /\ t <= Len(R)
        /\ ~warning
        /\ Returned => ~min_cost_changed

\* C19 witness: a run over three routers detected convergence in round 2,
\* after two rounds that changed best routes
C19_Witness ==
    /\ Converged
    /\ Len(R) = 3
    /\ t = Len(R) - 1
    /\ ~min_cost_changed

---------------------------------------------------------------------------
(* The best costs from one round to the next *)

\* C20: in a run over links of positive cost, a round leaves no ordered pair
\* with a best cost above its best cost of the round before (of the initial
\* records, for round 0): a pair with a route keeps a route, and its cost
\* stays or decreases.
C20_BestCostNeverIncreases ==
    [][RoundStep =>
          \A i, j \in Idx :
              /\ min_cost_new'[i][j].cost <= min_cost[i][j].cost
              /\ min_cost[i][j] # NoRoute => min_cost_new'[i][j] # NoRoute]_vars

\* C20 witness: a later round of the first run has left a pair that round 0
\* reached over its direct link with a best cost below the cost of that link
C20_Witness ==
    /\ run = 1
    /\ RoundDone
    /\ t >= 1
    /\ \E i, j \in Idx :
          /\ i # j
          /\ neighbors_cost[i][j] # NOLINK
          /\ min_cost_new[i][j].cost < neighbors_cost[i][j]

=============================================================================
